---------------------------- MODULE Spec2Model ----------------------------
(***************************************************************************)
(* A model of src/client.rs: the JSON-RPC client facade of a Bitcoin-style *)
(* daemon.  One facade call is followed step by step: the arg! expressions *)
(* are evaluated and pushed in order, make_call trims the trailing         *)
(* OptionalDefault entries and sends one request, and result_json /        *)
(* result_raw decode the response.                                         *)
(*                                                                         *)
(* Rust values, JSON values, descriptors, errors and results are tagged    *)
(* tuples whose first element is the tag.  A Rust String is the sequence   *)
(* of its characters, a byte vector the sequence of its bytes.             *)
(***************************************************************************)
EXTENDS Integers, Sequences, FiniteSets, TLC

VARIABLES
    pc,         \* position inside the facade method being executed
    op,         \* the facade method being executed
    params,     \* its parameters, in signature order
    failAt,     \* which arg! expression's serde_json::to_value fails (0: none)
    sighash,    \* signrawtransaction's local `sighash`
    args,       \* make_call's local `args`
    sent,       \* the json_args handed to build_request, once sent
    sends,      \* how many times send_request ran in this call
    resp,       \* what send_request returned
    accepts,    \* whether the decoder of the target type (the consensus codec,
                \* a structured type's Deserialize) accepts this response's payload
    intoCalls,  \* how many times Response::into_result ran in this call
    hexCalls,   \* how many times hex::decode ran in this call
    consCalls,  \* how many times consensus_decode ran in this call
    hexStr,     \* result_raw's string `hex` / `h`
    raw,        \* result_raw's decoded bytes `raw` / `r`
    result,     \* the value the facade method returns
    last        \* the call this handle completed before the one in hand: its
                \* method and whether it returned Ok or Err (empty before the first)

vars == <<pc, op, params, failAt, sighash, args, sent, sends, resp, accepts,
          intoCalls, hexCalls, consCalls, hexStr, raw, result, last>>

-----------------------------------------------------------------------------
(* Bounds of the model. *)

\* Longest string the daemon returns as a result.
MaxHexLen == 3
\* Longest descriptor sequence handed to make_call in the builder specification.
MaxArgs == 4

-----------------------------------------------------------------------------
(* Rust and JSON values. *)

None == <<"None">>
Some(v) == <<"Some", v>>
Ok(v) == <<"Ok", v>>
Err(e) == <<"Err", e>>

RInt(n) == <<"int", n>>
RBool(b) == <<"bool", b>>
RString(s) == <<"string", s>>
RVec(xs) == <<"vec", xs>>

JNull == <<"null">>
JBool(b) == <<"bool", b>>
JNum(n) == <<"num", n>>
JStr(s) == <<"str", s>>
JArr(xs) == <<"arr", xs>>
JObj(id) == <<"obj", id>>

\* Arg::Required, Arg::OptionalSet, Arg::OptionalDefault.
Required(v) == <<"Required", v>>
OptionalSet(v) == <<"OptionalSet", v>>
OptionalDefault(v) == <<"OptionalDefault", v>>

\* The macro empty!(): an empty Vec<serde_json::Value>.
empty == RVec(<<>>)

\* serde_json::to_value on the parameter types the facade passes.  An Option
\* serializes to null or to its content; a hash and an address to the string
\* that displays them; a map and a UTXO to an object.
RECURSIVE to_value(_)
to_value(v) ==
    CASE v[1] = "None" -> JNull
      [] v[1] = "Some" -> to_value(v[2])
      [] v[1] = "int" -> JNum(v[2])
      [] v[1] = "bool" -> JBool(v[2])
      [] v[1] = "string" -> JStr(v[2])
      [] v[1] = "hash" -> JStr(v[2])
      [] v[1] = "address" -> JStr(v[2])
      [] v[1] = "map" -> JObj(v[2])
      [] v[1] = "utxo" -> JObj(v[2])
      [] v[1] = "vec" -> JArr([i \in 1..Len(v[2]) |-> to_value(v[2][i])])

-----------------------------------------------------------------------------
(* Hex encoding and decoding (the hex crate). *)

HexDigits == <<"0", "1", "2", "3", "4", "5", "6", "7",
               "8", "9", "a", "b", "c", "d", "e", "f">>
UpperHexDigits == <<"0", "1", "2", "3", "4", "5", "6", "7",
                    "8", "9", "A", "B", "C", "D", "E", "F">>

\* The value of a hex digit, -1 for any other character.
HexVal(c) ==
    IF \E i \in 1..16 : HexDigits[i] = c
    THEN (CHOOSE i \in 1..16 : HexDigits[i] = c) - 1
    ELSE IF \E i \in 1..16 : UpperHexDigits[i] = c
    THEN (CHOOSE i \in 1..16 : UpperHexDigits[i] = c) - 1
    ELSE -1

\* hex::encode: two lower-case digits per byte.
RECURSIVE hex_encode(_)
hex_encode(bytes) ==
    IF bytes = <<>> THEN <<>>
    ELSE <<HexDigits[(Head(bytes) \div 16) + 1], HexDigits[(Head(bytes) % 16) + 1]>>
         \o hex_encode(Tail(bytes))

\* hex::decode: an odd length fails first, then the first character that is
\* no hex digit; otherwise one byte per pair of digits.
hex_decode(s) ==
    IF Len(s) % 2 # 0 THEN Err(<<"hex", "OddLength">>)
    ELSE IF \E i \in 1..Len(s) : HexVal(s[i]) < 0
    THEN Err(<<"hex", "InvalidHexCharacter">>)
    ELSE Ok([i \in 1..(Len(s) \div 2) |->
                HexVal(s[2 * i - 1]) * 16 + HexVal(s[2 * i])])

-----------------------------------------------------------------------------
(* The facade methods: their parameters, arg! expressions and decode macros. *)

Operations ==
    {"getblock_raw", "getblock_info", "getblockcount", "getblockhash",
     "getblockheader", "getblockheader_verbose", "getrawtransaction",
     "getrawtransaction_verbose", "gettxout", "listunspent",
     "signrawtransaction"}

\* The values of Option<T> over a set of values of T.
OptionOf(S) == {None} \cup {Some(v) : v \in S}

SigHashTypes ==
    {<<"SigHashType", n>> : n \in {"All", "None", "Single", "AllPlusAnyoneCanPay",
                                   "NonePlusAnyoneCanPay", "SinglePlusAnyoneCanPay"}}

\* The parameter values a caller passes, per method, in signature order.
Hashes == {<<"hash", <<"a", "b">>>>}
Heights == {RInt(5)}
Vouts == {RInt(1)}
MinConfs == {RInt(0), RInt(3)}
MaxConfs == {RInt(10)}
AddressLists == {RVec(<<<<"address", <<"X">>>>>>)}
Flags == {RBool(FALSE)}
QueryOptions == {<<"map", "minimumAmount">>}
Transactions == {<<"bytes", <<>>>>, <<"bytes", <<171>>>>}
UtxoLists == {RVec(<<<<"utxo", "u">>>>)}
KeyLists == {RVec(<<RVec(<<RInt(1)>>)>>)}

Params(o) ==
    CASE o = "getblock_raw" -> {<<h>> : h \in Hashes}
      [] o = "getblock_info" -> {<<h>> : h \in Hashes}
      [] o = "getblockcount" -> {<<>>}
      [] o = "getblockhash" -> {<<h>> : h \in Heights}
      [] o = "getblockheader" -> {<<h>> : h \in Hashes}
      [] o = "getblockheader_verbose" -> {<<h>> : h \in Hashes}
      [] o = "getrawtransaction" -> Hashes \X OptionOf(Hashes)
      [] o = "getrawtransaction_verbose" -> Hashes \X OptionOf(Hashes)
      [] o = "gettxout" -> Hashes \X Vouts \X OptionOf(Flags)
      [] o = "listunspent" ->
            OptionOf(MinConfs) \X OptionOf(MaxConfs) \X OptionOf(AddressLists)
                \X OptionOf(Flags) \X OptionOf(QueryOptions)
      [] o = "signrawtransaction" ->
            Transactions \X OptionOf(UtxoLists) \X OptionOf(KeyLists)
                \X OptionOf(SigHashTypes)

\* Which parameters of a method are Option<T> in its signature.
OptionalParams(o) ==
    CASE o = "getrawtransaction" -> {2}
      [] o = "getrawtransaction_verbose" -> {2}
      [] o = "gettxout" -> {3}
      [] o = "listunspent" -> {1, 2, 3, 4, 5}
      [] o = "signrawtransaction" -> {2, 3, 4}
      [] OTHER -> {}

\* A variant of sighash_string that loses the ANYONECANPAY flag.
sighash_string_base_only(sh) ==
    IF sh = None THEN None
    ELSE Some(RString(
        CASE sh[2][2] \in {"All", "AllPlusAnyoneCanPay"} -> <<"A", "L", "L">>
          [] sh[2][2] \in {"None", "NonePlusAnyoneCanPay"} -> <<"N", "O", "N", "E">>
          [] OTHER -> <<"S", "I", "N", "G", "L", "E">>))

\* sighash_string: the API's name of a SigHashType.
sighash_string(sh) ==
    IF sh = None THEN None
    ELSE Some(RString(
        CASE sh[2][2] = "All" -> <<"A", "L", "L">>
          [] sh[2][2] = "None" -> <<"N", "O", "N", "E">>
          [] sh[2][2] = "Single" -> <<"S", "I", "N", "G", "L", "E">>
          [] sh[2][2] = "AllPlusAnyoneCanPay" ->
                <<"A", "L", "L", "|",
                  "A", "N", "Y", "O", "N", "E", "C", "A", "N", "P", "A", "Y">>
          [] sh[2][2] = "NonePlusAnyoneCanPay" ->
                <<"N", "O", "N", "E", "|",
                  "A", "N", "Y", "O", "N", "E", "C", "A", "N", "P", "A", "Y">>
          [] sh[2][2] = "SinglePlusAnyoneCanPay" ->
                <<"S", "I", "N", "G", "L", "E", "|",
                  "A", "N", "Y", "O", "N", "E", "C", "A", "N", "P", "A", "Y">>))

\* The three arms of the macro arg!, as the expressions a method writes:
\* arg!(val), arg!(val, def) and arg!(val,).
ArgRequired(val) == <<"arg!(val)", val>>
ArgOptional(val, def) == <<"arg!(val, def)", val, def>>
ArgOptionalNoDefault(val) == <<"arg!(val,)", val>>

\* The documented defaults listunspent passes to arg!.
MinConfDefault == 0
MaxConfDefault == 9999999

\* The arg! expressions each method hands to make_call, in order; p are the
\* method's parameters and sh is signrawtransaction's local `sighash`.
\* "make_call" is the macro itself, used on the expressions p.
ArgExprs(o, p, sh) ==
    CASE o = "make_call" -> p
      [] o = "getblock_raw" -> <<ArgRequired(p[1]), ArgRequired(RInt(0))>>
      [] o = "getblock_info" -> <<ArgRequired(p[1]), ArgRequired(RInt(1))>>
      [] o = "getblockcount" -> <<>>
      [] o = "getblockhash" -> <<ArgRequired(p[1])>>
      [] o = "getblockheader" -> <<ArgRequired(p[1]), ArgRequired(RBool(TRUE))>>
      [] o = "getblockheader_verbose" ->
            <<ArgRequired(p[1]), ArgRequired(RBool(TRUE))>>
      [] o = "getrawtransaction" ->
            <<ArgRequired(p[1]), ArgRequired(RBool(FALSE)), ArgRequired(p[2])>>
      [] o = "getrawtransaction_verbose" ->
            <<ArgRequired(p[1]), ArgRequired(RBool(TRUE)), ArgRequired(p[2])>>
      [] o = "gettxout" ->
            <<ArgRequired(p[1]), ArgRequired(p[2]), ArgOptionalNoDefault(p[3])>>
      [] o = "listunspent" ->
            <<ArgOptional(p[1], RInt(MinConfDefault)),
              ArgOptional(p[2], RInt(MaxConfDefault)),
              ArgOptional(p[3], empty),
              ArgOptional(p[4], RBool(TRUE)),
              ArgOptionalNoDefault(p[5])>>
      [] o = "signrawtransaction" ->
            <<ArgRequired(RString(hex_encode(p[1][2]))),
              ArgOptional(p[2], empty),
              ArgOptional(Some(empty), empty),
              ArgOptionalNoDefault(sh)>>

\* The position, among a method's arg! expressions, of its i-th parameter:
\* getrawtransaction and its verbose variant put the fixed verbose flag
\* before block_hash.
ArgSlot(o, i) ==
    IF o \in {"getrawtransaction", "getrawtransaction_verbose"} /\ i = 2 THEN 3
    ELSE i

\* A variant of arg_optional that drops the default it is given and puts
\* null in the slot of an unset optional.
arg_optional_null_default(val, def) ==
    IF val[1] = "Some" THEN OptionalSet(to_value(val[2]))
    ELSE OptionalDefault(JNull)

\* The arm ($val:expr, $def:expr) of the macro arg!.
arg_optional(val, def) ==
    IF val[1] = "Some" THEN OptionalSet(to_value(val[2]))
    ELSE OptionalDefault(to_value(def))

\* The macro arg!: the descriptor an expression evaluates to when its
\* to_value succeeds.  The arm ($val:expr,) is arg!($val, "").
arg(e) ==
    CASE e[1] = "arg!(val)" -> Required(to_value(e[2]))
      [] e[1] = "arg!(val, def)" -> arg_optional(e[2], e[3])
      [] e[1] = "arg!(val,)" -> arg_optional(e[2], RString(<<>>))

\* The decode macro a method applies, whether its target is Option<T>, and T.
DecodeMode(o) ==
    CASE o = "getblock_raw" -> <<"raw", "plain", "Block">>
      [] o = "getblock_info" -> <<"json", "plain", "GetBlockResult">>
      [] o = "getblockcount" -> <<"json", "plain", "usize">>
      [] o = "getblockhash" -> <<"json", "plain", "Sha256dHash">>
      [] o = "getblockheader" -> <<"raw", "plain", "BlockHeader">>
      [] o = "getblockheader_verbose" -> <<"json", "plain", "GetBlockHeaderResult">>
      [] o = "getrawtransaction" -> <<"raw", "Option", "Transaction">>
      [] o = "getrawtransaction_verbose" ->
            <<"json", "Option", "GetRawTransactionResult">>
      [] o = "gettxout" -> <<"json", "Option", "GetTxOutResult">>
      [] o = "listunspent" -> <<"json", "plain", "Vec<ListUnspentResult>">>
      [] o = "signrawtransaction" -> <<"json", "plain", "SignRawTransactionResult">>

-----------------------------------------------------------------------------
(* make_call: the argument list it sends. *)

\* while let Some(Arg::OptionalDefault(_)) = args.last() { args.pop(); }
RECURSIVE TrimDefaults(_)
TrimDefaults(a) ==
    IF a # <<>> /\ a[Len(a)][1] = "OptionalDefault"
    THEN TrimDefaults(SubSeq(a, 1, Len(a) - 1))
    ELSE a

\* args.into_iter().map(|a| match a { .. => v }).collect()
Unwrap(a) == [i \in 1..Len(a) |-> a[i][2]]

IsSet(d) == d[1] # "OptionalDefault"

\* Variants of json_args: every OptionalDefault dropped wherever it stands;
\* `if let` for `while let`, so that one entry at most is popped; no trim.
json_args_drop_every_default(a) == Unwrap(SelectSeq(a, IsSet))

json_args_pop_once(a) ==
    Unwrap(IF a # <<>> /\ a[Len(a)][1] = "OptionalDefault"
           THEN SubSeq(a, 1, Len(a) - 1) ELSE a)

json_args_untrimmed(a) == Unwrap(a)

\* The json_args make_call hands to build_request.
json_args(a) == Unwrap(TrimDefaults(a))

-----------------------------------------------------------------------------
(* The transport and the decoders. *)

\* The characters of the strings the daemon returns: two hex digits, one of
\* them upper case, and a character that is no hex digit.
ResultChars == {"a", "F", "g"}

RECURSIVE StringsUpTo(_)
StringsUpTo(n) ==
    IF n = 0 THEN {<<>>}
    ELSE LET shorter == StringsUpTo(n - 1)
         IN shorter \cup {Append(s, c) : s \in {t \in shorter : Len(t) = n - 1},
                                          c \in ResultChars}

\* The `result` member of a response: absent, or a JSON value.
ResultValues ==
    {None} \cup {Some(v) : v \in {JNull, JNum(7), JNum(-1), JArr(<<>>),
                                     JArr(<<JObj("o")>>), JObj("o"),
                                     JStr([i \in 1..64 |-> "a"])}
                                    \cup {JStr(s) : s \in StringsUpTo(MaxHexLen)}}

\* What send_request returns: an error of the transport, or a response with
\* an `error` member, or a response with none.
Responses ==
    {Err(<<"jsonrpc", "Hyper">>)}
        \cup {Ok(<<"Response", Some(<<"RpcError">>), r>>) : r \in {None, Some(JNull)}}
        \cup {Ok(<<"Response", None, r>>) : r \in ResultValues}

\* Deserialize of the facade's own result types (GetBlockResult,
\* GetTxOutResult, ListUnspentResult, ...): records with fields, read from an
\* object or from a non-empty array of the fields in order; whether the
\* fields found are the type's is `ok`.
StructDeserializes(v, ok) ==
    (v[1] = "obj" \/ (v[1] = "arr" /\ v[2] # <<>>)) /\ ok

\* Whether a JSON value deserializes as T.  A String takes a JSON string; a
\* usize a number that is not negative (every number of the model is an
\* integer below 2^31, so the upper end of usize is out of reach); a
\* Sha256dHash a string of 64 hex digits; a Vec an array each element of
\* which deserializes.
Deserializes(name, v, ok) ==
    CASE name = "String" -> v[1] = "str"
      [] name = "usize" -> v[1] = "num" /\ v[2] >= 0
      [] name = "Sha256dHash" ->
            /\ v[1] = "str"
            /\ Len(v[2]) = 64
            /\ \A i \in 1..Len(v[2]) : HexVal(v[2][i]) >= 0
      [] name = "Vec<ListUnspentResult>" ->
            /\ v[1] = "arr"
            /\ \A i \in 1..Len(v[2]) : StructDeserializes(v[2][i], ok)
      [] OTHER -> StructDeserializes(v, ok)

\* serde_json::from_value::<T> and ::<Option<T>>: null is None for an Option;
\* any other value is T's to take or to refuse.
from_value(wrap, name, v, ok) ==
    IF wrap = "Option" /\ v = JNull THEN Ok(None)
    ELSE IF Deserializes(name, v, ok)
    THEN LET t == IF name = "String" THEN RString(v[2]) ELSE <<"value", name, v>>
         IN Ok(IF wrap = "Option" THEN Some(t) ELSE t)
    ELSE Err(<<"jsonrpc", "Json">>)

\* Response::into_result::<T>: the response's error if it has one, else its
\* result (null when absent) deserialized as T.
into_result(wrap, name, r, ok) ==
    IF r[2] # None THEN Err(<<"jsonrpc", "Rpc">>)
    ELSE from_value(wrap, name, IF r[3] = None THEN JNull ELSE r[3][2], ok)

\* Error::from: which kind of error of this layer wraps an error of a callee.
ErrorFrom(e) ==
    CASE e[1] = "serde_json" -> <<"SerializationError", e>>
      [] e[1] = "jsonrpc" /\ e[2] = "Json" -> <<"DecodeError", e>>
      [] e[1] = "jsonrpc" /\ e[2] # "Json" -> <<"TransportError", e>>
      [] e[1] = "hex" -> <<"HexError", e>>
      [] e[1] = "consensus" -> <<"ConsensusDecodeError", e>>

\* result.map_err(Error::from)
MapErr(r) == IF r[1] = "Err" THEN Err(ErrorFrom(r[2])) ELSE r

-----------------------------------------------------------------------------
(* The state machine of one client handle. *)

Exprs == ArgExprs(op, params, sighash)

Idle ==
    /\ pc = "idle" /\ op = "" /\ params = <<>> /\ failAt = 0 /\ sighash = None
    /\ args = <<>> /\ sent = None /\ sends = 0 /\ resp = None /\ accepts = FALSE
    /\ intoCalls = 0 /\ hexCalls = 0 /\ consCalls = 0
    /\ hexStr = <<>> /\ raw = <<>> /\ result = None

Init == Idle /\ last = <<"", "">>

\* The arg! expressions make_call is tried on: a required value, an optional
\* one that is set, an optional one that is not, each with two values.
BuildExprs ==
    {ArgRequired(RInt(1)), ArgRequired(RBool(TRUE)),
     ArgOptional(Some(RInt(2)), RInt(0)), ArgOptional(Some(RInt(0)), RInt(0)),
     ArgOptional(None, RInt(0)), ArgOptionalNoDefault(None)}

RECURSIVE ExprSeqs(_)
ExprSeqs(n) ==
    IF n = 0 THEN {<<>>}
    ELSE LET shorter == ExprSeqs(n - 1)
         IN shorter \cup {Append(s, e) : s \in {t \in shorter : Len(t) = n - 1},
                                          e \in BuildExprs}

InitBuild ==
    /\ pc = "args" /\ op = "make_call" /\ params \in ExprSeqs(MaxArgs)
    /\ failAt = 0 /\ sighash = None
    /\ args = <<>> /\ sent = None /\ sends = 0 /\ resp = None /\ accepts = FALSE
    /\ intoCalls = 0 /\ hexCalls = 0 /\ consCalls = 0
    /\ hexStr = <<>> /\ raw = <<>> /\ result = None
    /\ last = <<"", "">>

\* A facade method is entered; signrawtransaction first computes `sighash`.
Call ==
    /\ pc = "idle"
    /\ \E o \in Operations :
         \E p \in Params(o) :
            LET sh == IF o = "signrawtransaction" THEN sighash_string(p[4]) ELSE None
            IN \E f \in 0..Len(ArgExprs(o, p, sh)) :
                 /\ op' = o
                 /\ params' = p
                 /\ sighash' = sh
                 /\ failAt' = f
    /\ pc' = "args"
    /\ UNCHANGED <<args, sent, sends, resp, accepts, intoCalls, hexCalls,
                   consCalls, hexStr, raw, result, last>>

\* args.push(arg!(..)): the next expression serializes and is pushed.
PushArg ==
    /\ pc = "args"
    /\ Len(args) < Len(Exprs)
    /\ failAt # Len(args) + 1
    /\ args' = Append(args, arg(Exprs[Len(args) + 1]))
    /\ UNCHANGED <<pc, op, params, failAt, sighash, sent, sends, resp, accepts,
                   intoCalls, hexCalls, consCalls, hexStr, raw, result, last>>

\* A variant of ArgFails that swallows the error and pushes null.
ArgFailsPushesNull ==
    /\ pc = "args"
    /\ Len(args) < Len(Exprs)
    /\ failAt = Len(args) + 1
    /\ args' = Append(args, Required(JNull))
    /\ UNCHANGED <<pc, op, params, failAt, sighash, sent, sends, resp, accepts,
                   intoCalls, hexCalls, consCalls, hexStr, raw, result, last>>

\* serde_json::to_value(..)? fails: the method returns the error.
ArgFails ==
    /\ pc = "args"
    /\ Len(args) < Len(Exprs)
    /\ failAt = Len(args) + 1
    /\ result' = Err(ErrorFrom(<<"serde_json">>))
    /\ pc' = "done"
    /\ UNCHANGED <<op, params, failAt, sighash, args, sent, sends, resp, accepts,
                   intoCalls, hexCalls, consCalls, hexStr, raw, last>>

\* make_call, every argument pushed: trim, unwrap, build_request.
BuildRequest ==
    /\ pc = "args"
    /\ Len(args) = Len(Exprs)
    /\ sent' = Some(json_args(args))
    /\ pc' = "send"
    /\ UNCHANGED <<op, params, failAt, sighash, args, sends, resp, accepts,
                   intoCalls, hexCalls, consCalls, hexStr, raw, result, last>>

\* make_call: send_request.  The daemon's answer, and what the decoder of the
\* target type makes of its payload, are the environment's.
SendRequest ==
    /\ pc = "send"
    /\ sends' = sends + 1
    /\ \E r \in Responses : resp' = r
    /\ \E a \in BOOLEAN : accepts' = a
    /\ pc' = "resp"
    /\ UNCHANGED <<op, params, failAt, sighash, args, sent, intoCalls, hexCalls,
                   consCalls, hexStr, raw, result, last>>

\* A variant of TransportFailed that sends the request once more before it
\* gives up.
TransportFailedRetries ==
    /\ pc = "resp"
    /\ resp[1] = "Err"
    /\ IF sends < 2
       THEN pc' = "send" /\ result' = result
       ELSE pc' = "done" /\ result' = MapErr(resp)
    /\ UNCHANGED <<op, params, failAt, sighash, args, sent, sends, resp, accepts,
                   intoCalls, hexCalls, consCalls, hexStr, raw, last>>

\* send_request(..).map_err(Error::from) is an error: and_then and `?` pass
\* it on and no decoder runs.
TransportFailed ==
    /\ pc = "resp"
    /\ resp[1] = "Err"
    /\ result' = MapErr(resp)
    /\ pc' = "done"
    /\ UNCHANGED <<op, params, failAt, sighash, args, sent, sends, resp, accepts,
                   intoCalls, hexCalls, consCalls, hexStr, raw, last>>

\* result_json!: r.into_result::<T>().map_err(Error::from)
ResultJson ==
    /\ pc = "resp"
    /\ resp[1] = "Ok"
    /\ DecodeMode(op)[1] = "json"
    /\ intoCalls' = intoCalls + 1
    /\ result' = MapErr(into_result(DecodeMode(op)[2], DecodeMode(op)[3], resp[2], accepts))
    /\ pc' = "done"
    /\ UNCHANGED <<op, params, failAt, sighash, args, sent, sends, resp, accepts,
                   hexCalls, consCalls, hexStr, raw, last>>

\* A variant of ResultRawString that decodes the empty string when the
\* result is None.
ResultRawStringDecodesNone ==
    /\ pc = "resp"
    /\ resp[1] = "Ok"
    /\ DecodeMode(op)[1] = "raw"
    /\ intoCalls' = intoCalls + 1
    /\ LET r == MapErr(into_result(DecodeMode(op)[2], "String", resp[2], accepts))
       IN IF r[1] = "Err"
          THEN result' = r /\ pc' = "done" /\ hexStr' = hexStr
          ELSE /\ hexStr' = (IF r[2] = None THEN <<>>
                             ELSE IF DecodeMode(op)[2] = "Option" THEN r[2][2][2]
                             ELSE r[2][2])
               /\ pc' = "hex"
               /\ result' = result
    /\ UNCHANGED <<op, params, failAt, sighash, args, sent, sends, resp, accepts,
                   hexCalls, consCalls, raw, last>>

\* result_raw!: r.into_result::<String>() or ::<Option<String>>(); an error
\* is returned, None is Ok(None), a string goes on to hex::decode.
ResultRawString ==
    /\ pc = "resp"
    /\ resp[1] = "Ok"
    /\ DecodeMode(op)[1] = "raw"
    /\ intoCalls' = intoCalls + 1
    /\ LET r == MapErr(into_result(DecodeMode(op)[2], "String", resp[2], accepts))
       IN IF r[1] = "Err"
          THEN result' = r /\ pc' = "done" /\ hexStr' = hexStr
          ELSE IF r[2] = None
          THEN result' = Ok(None) /\ pc' = "done" /\ hexStr' = hexStr
          ELSE /\ hexStr' = (IF DecodeMode(op)[2] = "Option" THEN r[2][2][2] ELSE r[2][2])
               /\ pc' = "hex"
               /\ result' = result
    /\ UNCHANGED <<op, params, failAt, sighash, args, sent, sends, resp, accepts,
                   hexCalls, consCalls, raw, last>>

\* A variant of ResultRawHex that takes undecodable hex for no bytes.
ResultRawHexSwallowsError ==
    /\ pc = "hex"
    /\ hexCalls' = hexCalls + 1
    /\ LET d == hex_decode(hexStr)
       IN raw' = IF d[1] = "Err" THEN <<>> ELSE d[2]
    /\ pc' = "consensus"
    /\ UNCHANGED <<op, params, failAt, sighash, args, sent, sends, resp, accepts,
                   intoCalls, consCalls, hexStr, result, last>>

\* result_raw!: hex::decode(hex), its error returned.
ResultRawHex ==
    /\ pc = "hex"
    /\ hexCalls' = hexCalls + 1
    /\ LET d == MapErr(hex_decode(hexStr))
       IN IF d[1] = "Err"
          THEN result' = d /\ pc' = "done" /\ raw' = raw
          ELSE raw' = d[2] /\ pc' = "consensus" /\ result' = result
    /\ UNCHANGED <<op, params, failAt, sighash, args, sent, sends, resp, accepts,
                   intoCalls, consCalls, hexStr, last>>

\* consensus_decode of the external codec: the value it builds from the
\* bytes it accepts, its error for the bytes it rejects.
consensus_decode(name, bytes, ok) ==
    IF ok THEN Ok(<<"decoded", name, bytes>>) ELSE Err(<<"consensus">>)

\* result_raw!: <T>::consensus_decode(&mut RawDecoder::new(raw)), wrapped in
\* Some for an Option<T> target.
ResultRawConsensus ==
    /\ pc = "consensus"
    /\ consCalls' = consCalls + 1
    /\ LET d == MapErr(consensus_decode(DecodeMode(op)[3], raw, accepts))
       IN result' = IF d[1] = "Ok" /\ DecodeMode(op)[2] = "Option"
                    THEN Ok(Some(d[2])) ELSE d
    /\ pc' = "done"
    /\ UNCHANGED <<op, params, failAt, sighash, args, sent, sends, resp, accepts,
                   intoCalls, hexCalls, hexStr, raw, last>>

\* The method returns; its locals are gone.
Return ==
    /\ pc = "done"
    /\ last' = <<op, result[1]>>
    /\ pc' = "idle" /\ op' = "" /\ params' = <<>> /\ failAt' = 0 /\ sighash' = None
    /\ args' = <<>> /\ sent' = None /\ sends' = 0 /\ resp' = None
    /\ accepts' = FALSE /\ intoCalls' = 0 /\ hexCalls' = 0 /\ consCalls' = 0
    /\ hexStr' = <<>> /\ raw' = <<>> /\ result' = None

Next ==
    \/ Call
    \/ PushArg
    \/ ArgFails
    \/ BuildRequest
    \/ SendRequest
    \/ TransportFailed
    \/ ResultJson
    \/ ResultRawString
    \/ ResultRawHex
    \/ ResultRawConsensus
    \/ Return

\* Every facade method, called over and over on one client handle.
Spec == Init /\ [][Next]_vars

\* make_call on its own, on every sequence of arg! expressions: the pushes,
\* the trim and build_request, then send_request, whose result the macro
\* evaluates to.
NextBuild ==
    \/ PushArg
    \/ BuildRequest
    \/ SendRequest

SpecBuild == InitBuild /\ [][NextBuild]_vars

-----------------------------------------------------------------------------
(* The argument list sent: claims C1 to C5. *)

\* The length of the maximal trailing run of OptionalDefault entries.
TrailingRun(a) ==
    CHOOSE k \in 0..Len(a) :
        /\ \A i \in (Len(a) - k + 1)..Len(a) : a[i][1] = "OptionalDefault"
        /\ k < Len(a) => a[Len(a) - k][1] # "OptionalDefault"

\* C1: for every sequence of descriptors given to make_call, the argument
\* list sent is the carried values of the sequence without its maximal
\* trailing run of OptionalDefault entries: the length is the input's minus
\* the run's, the order is kept, and an OptionalDefault with a later Required
\* or OptionalSet entry stays at its position with its default value.
C1_TrailingDefaultsTrimmed ==
    sent # None =>
        LET out == sent[2]
        IN /\ Len(out) = Len(args) - TrailingRun(args)
           /\ \A i \in 1..Len(out) : out[i] = args[i][2]
           /\ \A i \in 1..Len(args) :
                (/\ args[i][1] = "OptionalDefault"
                 /\ \E j \in (i + 1)..Len(args) :
                        args[j][1] \in {"Required", "OptionalSet"})
                    => i <= Len(out) /\ out[i] = args[i][2]

\* A default kept before a set optional, and a trailing run of two trimmed.
C1_Witness ==
    /\ sent # None /\ sends = 1 /\ pc = "resp"
    /\ Len(args) = 4
    /\ args[1] = OptionalDefault(JNum(0))
    /\ args[2] = OptionalSet(JNum(2))
    /\ args[3][1] = "OptionalDefault"
    /\ args[4][1] = "OptionalDefault"
    /\ sent[2] = <<JNum(0), JNum(2)>>

\* C2: in every facade method each mandatory parameter is marshalled as
\* Required and each optional parameter as OptionalSet when the caller
\* supplied a value and as OptionalDefault when not, so that
\* getrawtransaction with block_hash = None sends two arguments.
C2_OptionalParamsMarshalledAsOptional ==
    (op \in Operations /\ sent # None) =>
        /\ \A i \in 1..Len(params) :
              args[ArgSlot(op, i)][1] =
                  IF i \in OptionalParams(op)
                  THEN (IF params[i] = None THEN "OptionalDefault" ELSE "OptionalSet")
                  ELSE "Required"
        /\ (op = "getrawtransaction" /\ params[2] = None) => Len(sent[2]) = 2

\* C3 as claimed: signrawtransaction with utxos = None and sighash_type = None
\* sends neither optional slot: only the transaction and the private-keys
\* placeholder remain.
C3_BothOptionalSlotsTrimmed ==
    (op = "signrawtransaction" /\ sent # None
        /\ params[2] = None /\ params[4] = None)
        => sent[2] = <<args[1][2], args[3][2]>>

\* C3 as amended: signrawtransaction with utxos = None and sighash_type = None
\* trims the signature-hash-type slot only; the UTXO slot stays, carrying its
\* default (the empty list), because the private-keys placeholder follows it:
\* the arguments sent are the transaction's hex, [] and [].
C3_OnlySighashSlotTrimmed ==
    (op = "signrawtransaction" /\ sent # None
        /\ params[2] = None /\ params[4] = None)
        => /\ Len(sent[2]) = 3
           /\ sent[2][1] \in {JStr(<<>>), JStr(<<"a", "b">>)}
           /\ sent[2][2] = JArr(<<>>)
           /\ sent[2][3] = JArr(<<>>)

C3_Witness ==
    /\ op = "signrawtransaction" /\ pc = "done" /\ sends = 1
    /\ params[2] = None /\ params[4] = None
    /\ sent = Some(<<JStr(<<"a", "b">>), JArr(<<>>), JArr(<<>>)>>)

\* C4: listunspent with minconf = None and query_options supplied sends five
\* arguments; every unset slot carries its documented default (0, 9999999,
\* the empty list, true), every set slot its value, and the fifth is the
\* query options.
C4_ListUnspentDefaultsFilled ==
    (op = "listunspent" /\ sent # None /\ params[1] = None /\ params[5] # None)
        => /\ Len(sent[2]) = 5
           /\ sent[2][1] = JNum(0)
           /\ sent[2][2] = IF params[2] = None THEN JNum(9999999) ELSE JNum(10)
           /\ sent[2][3] = IF params[3] = None THEN JArr(<<>>)
                           ELSE JArr(<<JStr(<<"X">>)>>)
           /\ sent[2][4] = IF params[4] = None THEN JBool(TRUE) ELSE JBool(FALSE)
           /\ sent[2][5] = JObj("minimumAmount")

\* Only query_options supplied: four defaults before it.
C4_Witness ==
    /\ op = "listunspent" /\ pc = "done" /\ sends = 1
    /\ params = <<None, None, None, None, Some(<<"map", "minimumAmount">>)>>
    /\ sent = Some(<<JNum(0), JNum(9999999), JArr(<<>>), JBool(TRUE),
                     JObj("minimumAmount")>>)

\* The position of the last parameter the caller supplied, 0 when none is.
LastSupplied(p) ==
    IF \E i \in 1..Len(p) : p[i] # None
    THEN CHOOSE i \in 1..Len(p) :
            p[i] # None /\ \A j \in (i + 1)..Len(p) : p[j] = None
    ELSE 0

\* C5: listunspent sends as many arguments as the position of the last
\* optional parameter supplied, none when none is supplied; with only
\* minconf = Some(3) it sends the one element 3.
C5_ListUnspentLength ==
    (op = "listunspent" /\ sent # None)
        => /\ Len(sent[2]) = LastSupplied(params)
           /\ params = <<Some(RInt(3)), None, None, None, None>>
                => sent[2] = <<JNum(3)>>

C5_Witness ==
    /\ op = "listunspent" /\ pc = "done" /\ sends = 1
    /\ params = <<Some(RInt(3)), None, None, None, None>>
    /\ sent = Some(<<JNum(3)>>)

-----------------------------------------------------------------------------
(* Decoding and errors: claims C6 to C9. *)

\* The response carries no error and its result is a JSON string.
ResultIsString ==
    /\ resp[1] = "Ok"
    /\ resp[2][2] = None
    /\ resp[2][3] # None
    /\ resp[2][3][2][1] = "str"

\* C6: in raw mode with an Option<T> target (getrawtransaction), a response
\* of the transport without an error whose result is null yields Ok(None)
\* with neither hex nor consensus decoding invoked; hex and consensus
\* decoding are invoked only when the result is a string.
C6_NullYieldsNoValue ==
    op = "getrawtransaction" =>
        /\ (pc = "done" /\ resp = Ok(<<"Response", None, Some(JNull)>>))
              => result = Ok(None) /\ hexCalls = 0 /\ consCalls = 0
        /\ (hexCalls > 0 \/ consCalls > 0) => ResultIsString

C6_Witness ==
    /\ op = "getrawtransaction" /\ pc = "done"
    /\ resp = Ok(<<"Response", None, Some(JNull)>>)
    /\ intoCalls = 1 /\ result = Ok(None)

\* The characters hex decoding takes.
HexDigitChars ==
    {"0", "1", "2", "3", "4", "5", "6", "7", "8", "9",
     "a", "b", "c", "d", "e", "f", "A", "B", "C", "D", "E", "F"}

IsValidHex(s) == Len(s) % 2 = 0 /\ \A i \in 1..Len(s) : s[i] \in HexDigitChars

\* C7: a raw-mode decode, plain or Option-wrapped, returns a T only when the
\* transport succeeded, the result was a string, the string valid hex and the
\* bytes accepted by the consensus decoder; malformed hex yields a HexError,
\* rejected bytes a ConsensusDecodeError, and the error returned is that of
\* the first stage that fails: transport, JSON shape, hex, consensus.
C7_RawDecodeAllOrNothing ==
    (pc = "done" /\ sends = 1 /\ DecodeMode(op)[1] = "raw") =>
        LET option == DecodeMode(op)[2] = "Option"
            hasError == resp[1] = "Ok" /\ resp[2][2] # None
            isNull == resp[1] = "Ok" /\ resp[2][2] = None
                        /\ resp[2][3] \in {None, Some(JNull)}
            chars == resp[2][3][2][2]
            isT(v) == /\ v[1] = "decoded" /\ v[2] = DecodeMode(op)[3]
                      /\ Len(v[3]) * 2 = Len(chars)
                      /\ \A i \in 1..Len(v[3]) : v[3][i] \in 0..255
        IN /\ resp[1] = "Err" => result = Err(<<"TransportError", resp[2]>>)
           /\ hasError => result = Err(<<"TransportError", <<"jsonrpc", "Rpc">>>>)
           /\ (isNull /\ option) => result = Ok(None)
           /\ (resp[1] = "Ok" /\ ~hasError /\ ~ResultIsString /\ ~(isNull /\ option))
                => result = Err(<<"DecodeError", <<"jsonrpc", "Json">>>>)
           /\ (ResultIsString /\ ~IsValidHex(chars))
                => /\ result[1] = "Err" /\ result[2][1] = "HexError"
                   /\ consCalls = 0
           /\ (ResultIsString /\ IsValidHex(chars) /\ ~accepts)
                => result = Err(<<"ConsensusDecodeError", <<"consensus">>>>)
           /\ (ResultIsString /\ IsValidHex(chars) /\ accepts)
                => /\ result[1] = "Ok"
                   /\ IF option THEN result[2][1] = "Some" /\ isT(result[2][2])
                      ELSE isT(result[2])
           /\ (result[1] = "Ok" /\ result[2] # None)
                => ResultIsString /\ IsValidHex(chars) /\ accepts

\* Valid hex, in both cases, that the codec rejects.
C7_Witness ==
    /\ op = "getblockheader" /\ pc = "done"
    /\ resp = Ok(<<"Response", None, Some(JStr(<<"a", "F">>))>>)
    /\ raw = <<175>> /\ ~accepts
    /\ result = Err(<<"ConsensusDecodeError", <<"consensus">>>>)

\* C8: when converting a parameter to JSON fails the call returns a
\* SerializationError at once and no request is built or sent: every
\* descriptor of a call is serialized before its one build_request and
\* send_request.
C8_SerializationFailsBeforeRequest ==
    /\ sends <= 1
    /\ sends > 0 => sent # None
    /\ sent # None => failAt = 0 /\ Len(args) = Len(Exprs)
    /\ failAt # 0 => sent = None /\ sends = 0 /\ Len(args) < failAt
    /\ (pc = "done" /\ failAt # 0)
          => /\ result = Err(<<"SerializationError", <<"serde_json">>>>)
             /\ Len(args) = failAt - 1
             /\ intoCalls = 0

\* The third parameter of listunspent does not serialize.
C8_Witness ==
    /\ op = "listunspent" /\ pc = "done" /\ failAt = 3
    /\ Len(args) = 2 /\ sent = None /\ sends = 0
    /\ result[1] = "Err"

\* The value of each hex digit, in either case.
Nibbles ==
    {<<"0", 0>>, <<"1", 1>>, <<"2", 2>>, <<"3", 3>>, <<"4", 4>>, <<"5", 5>>,
     <<"6", 6>>, <<"7", 7>>, <<"8", 8>>, <<"9", 9>>,
     <<"a", 10>>, <<"b", 11>>, <<"c", 12>>, <<"d", 13>>, <<"e", 14>>, <<"f", 15>>,
     <<"A", 10>>, <<"B", 11>>, <<"C", 12>>, <<"D", 13>>, <<"E", 14>>, <<"F", 15>>}

Nibble(c) == (CHOOSE p \in Nibbles : p[1] = c)[2]

\* The bytes a string of valid hex stands for.
BytesOf(s) ==
    [i \in 1..(Len(s) \div 2) |-> Nibble(s[2 * i - 1]) * 16 + Nibble(s[2 * i])]

\* A JSON value a record type can be read from.
IsRecord(v) == v[1] = "obj" \/ (v[1] = "arr" /\ Len(v[2]) > 0)

\* What the call in hand has to return, told from nothing but its own
\* method, its own arguments (whether they serialize) and the answer to its
\* own request: the response and what the target type's decoder makes of
\* its payload.
ExpectedOutcome ==
    IF failAt # 0 THEN Err(<<"SerializationError", <<"serde_json">>>>)
    ELSE IF resp[1] = "Err" THEN Err(<<"TransportError", resp[2]>>)
    ELSE IF resp[2][2] # None THEN Err(<<"TransportError", <<"jsonrpc", "Rpc">>>>)
    ELSE
      LET raw_mode == DecodeMode(op)[1] = "raw"
          option == DecodeMode(op)[2] = "Option"
          T == DecodeMode(op)[3]
          v == IF resp[2][3] = None THEN JNull ELSE resp[2][3][2]
          wrap(t) == IF option THEN Some(t) ELSE t
          mismatch == Err(<<"DecodeError", <<"jsonrpc", "Json">>>>)
      IN IF option /\ v = JNull THEN Ok(None)
         ELSE IF raw_mode
         THEN IF v[1] # "str" THEN mismatch
              ELSE IF Len(v[2]) % 2 = 1
              THEN Err(<<"HexError", <<"hex", "OddLength">>>>)
              ELSE IF \E i \in 1..Len(v[2]) : v[2][i] \notin HexDigitChars
              THEN Err(<<"HexError", <<"hex", "InvalidHexCharacter">>>>)
              ELSE IF ~accepts
              THEN Err(<<"ConsensusDecodeError", <<"consensus">>>>)
              ELSE Ok(wrap(<<"decoded", T, BytesOf(v[2])>>))
         ELSE LET readable ==
                      CASE T = "usize" -> v[1] = "num" /\ v[2] >= 0
                        [] T = "Sha256dHash" ->
                              /\ v[1] = "str" /\ Len(v[2]) = 64
                              /\ \A i \in 1..64 : v[2][i] \in HexDigitChars
                        [] T = "Vec<ListUnspentResult>" ->
                              /\ v[1] = "arr"
                              /\ \A i \in 1..Len(v[2]) : IsRecord(v[2][i]) /\ accepts
                        [] OTHER -> IsRecord(v) /\ accepts
              IN IF readable THEN Ok(wrap(<<"value", T, v>>)) ELSE mismatch

\* C9: every facade method sends at most one request and never retries; an
\* error of the transport is returned wrapped in this layer's error, with no
\* second send and no decoding; a response goes through into_result exactly
\* once (and through hex and consensus decoding at most once each); what the
\* method returns is what its own arguments and its own response determine,
\* whatever call the handle completed before; and nothing of a call is left
\* on the handle when it has returned.
C9_OneRequestNoRetry ==
    /\ sends <= 1 /\ intoCalls <= 1 /\ hexCalls <= 1 /\ consCalls <= 1
    /\ (pc = "done" /\ resp # None /\ resp[1] = "Err")
          => /\ result[1] = "Err" /\ result[2][2] = resp[2]
             /\ sends = 1 /\ intoCalls = 0 /\ hexCalls = 0 /\ consCalls = 0
    /\ (pc = "done" /\ resp # None /\ resp[1] = "Ok") => sends = 1 /\ intoCalls = 1
    /\ pc = "done" => result = ExpectedOutcome
    /\ pc = "idle" => Idle

\* The transport fails in a call of a method of the plain raw decode, on a
\* handle whose call before, of another method, succeeded.
C9_Witness ==
    /\ pc = "done" /\ op = "getblock_raw"
    /\ last = <<"getblockcount", "Ok">>
    /\ resp = Err(<<"jsonrpc", "Hyper">>)
    /\ sends = 1 /\ intoCalls = 0
    /\ result = Err(<<"TransportError", <<"jsonrpc", "Hyper">>>>)

-----------------------------------------------------------------------------
(* The signature-hash type: claim C10. *)

\* The canonical token of each variant.
CanonicalTokens ==
    {<<"All", <<"A", "L", "L">>>>,
     <<"None", <<"N", "O", "N", "E">>>>,
     <<"Single", <<"S", "I", "N", "G", "L", "E">>>>,
     <<"AllPlusAnyoneCanPay",
       <<"A", "L", "L", "|", "A", "N", "Y", "O", "N", "E", "C", "A", "N", "P", "A", "Y">>>>,
     <<"NonePlusAnyoneCanPay",
       <<"N", "O", "N", "E", "|",
         "A", "N", "Y", "O", "N", "E", "C", "A", "N", "P", "A", "Y">>>>,
     <<"SinglePlusAnyoneCanPay",
       <<"S", "I", "N", "G", "L", "E", "|",
         "A", "N", "Y", "O", "N", "E", "C", "A", "N", "P", "A", "Y">>>>}

\* Parsing a token: the variants it names.
ParseToken(t) == {<<"SigHashType", c[1]>> : c \in {d \in CanonicalTokens : d[2] = t}}

\* C10: sighash_string maps each of the six variants to its canonical token
\* and an absent type to no value; the tokens are pairwise distinct, so that
\* parsing the token gives back the variant; an absent type produces no token.
C10_SighashTokens ==
    /\ \A c \in CanonicalTokens :
          sighash_string(Some(<<"SigHashType", c[1]>>)) = Some(RString(c[2]))
    /\ \A a, b \in SigHashTypes :
          a # b => sighash_string(Some(a)) # sighash_string(Some(b))
    /\ (op = "signrawtransaction" /\ params[4] = None)
          => /\ sighash = None
             /\ sent # None => Len(sent[2]) < 4
    /\ (op = "signrawtransaction" /\ params[4] # None)
          => /\ sighash # None
             /\ ParseToken(sighash[2][2]) = {params[4][2]}
             /\ sent # None => sent[2][4] = JStr(sighash[2][2])

C10_Witness ==
    /\ op = "signrawtransaction" /\ pc = "done" /\ sends = 1
    /\ params[4] = Some(<<"SigHashType", "SinglePlusAnyoneCanPay">>)
    /\ Len(sent[2]) = 4
    /\ sent[2][4] = JStr(<<"S", "I", "N", "G", "L", "E", "|",
                          "A", "N", "Y", "O", "N", "E", "C", "A", "N", "P", "A", "Y">>)

=============================================================================
